---- MODULE Spec2Model ----
(***************************************************************************)
(* Model of erc1155_checker.py: the proxy checker's address normalisation  *)
(* (parse_proxy), the per-proxy retry loop (check_proxy), the thread-pool   *)
(* scheduler (validate_proxies) and the run around them (main).            *)
(*                                                                         *)
(* Strings are sequences of one-character strings, so that startswith,     *)
(* split, lstrip and sorted() are computed as Python computes them.        *)
(***************************************************************************)
EXTENDS Integers, Sequences, FiniteSets, TLC

\* ------------------------------------------------------------------ bounds
\* Largest --max_workers value the runs of Spec are started with.
MaxWorkers == 2
\* Largest --retries value the runs of Spec are started with.
MaxRetries == 2

\* ------------------------------------------------------------------ strings
\* Code point of a character: the order sorted() compares strings by.
CharCode(c) ==
    CASE c = "/" -> 47
      [] c = "0" -> 48 [] c = "1" -> 49 [] c = "2" -> 50 [] c = "3" -> 51
      [] c = "4" -> 52 [] c = "5" -> 53 [] c = "6" -> 54 [] c = "7" -> 55
      [] c = "8" -> 56 [] c = "9" -> 57
      [] c = ":" -> 58
      [] c = "a" -> 97 [] c = "c" -> 99 [] c = "g" -> 103 [] c = "h" -> 104
      [] c = "k" -> 107 [] c = "o" -> 111 [] c = "p" -> 112 [] c = "s" -> 115
      [] c = "t" -> 116

\* s < t in Python's string order (lexicographic by code point; a proper
\* prefix is smaller).
RECURSIVE StrLess(_, _)
StrLess(s, t) ==
    IF t = <<>> THEN FALSE
    ELSE IF s = <<>> THEN TRUE
    ELSE IF Head(s) = Head(t) THEN StrLess(Tail(s), Tail(t))
    ELSE CharCode(Head(s)) < CharCode(Head(t))

\* sorted(S) for a set of strings.
RECURSIVE Sorted(_)
Sorted(S) ==
    IF S = {} THEN <<>>
    ELSE LET m == CHOOSE x \in S : \A y \in S \ {x} : StrLess(x, y)
         IN  <<m>> \o Sorted(S \ {m})

\* s.startswith(prefix)
StartsWith(s, prefix) ==
    /\ Len(s) >= Len(prefix)
    /\ SubSeq(s, 1, Len(prefix)) = prefix

\* The positions at which sub occurs in s.
Occurrences(s, sub) ==
    { i \in 1..(Len(s) - Len(sub) + 1) : SubSeq(s, i, i + Len(sub) - 1) = sub }

\* sub in s
Contains(s, sub) == Occurrences(s, sub) # {}

\* s.split(sep)[-1]: str.split cuts at the non-overlapping occurrences of sep
\* found scanning from the left; the last piece is what follows the last cut.
RECURSIVE SplitLast(_, _)
SplitLast(s, sep) ==
    IF Occurrences(s, sep) = {} THEN s
    ELSE LET i == CHOOSE k \in Occurrences(s, sep) :
                      \A j \in Occurrences(s, sep) : k <= j
         IN  SplitLast(SubSeq(s, i + Len(sep), Len(s)), sep)

\* s.lstrip(chars): drop leading characters that are in the set chars.
RECURSIVE LStrip(_, _)
LStrip(s, chars) ==
    IF s # <<>> /\ Head(s) \in chars THEN LStrip(Tail(s), chars) ELSE s

SchemeSep == <<":", "/", "/">>
Socks5 == <<"s", "o", "c", "k", "s", "5">>
Socks4 == <<"s", "o", "c", "k", "s", "4">>
Socks5hScheme == <<"s", "o", "c", "k", "s", "5", "h", ":", "/", "/">>
Socks4Scheme == <<"s", "o", "c", "k", "s", "4", ":", "/", "/">>
HttpScheme == <<"h", "t", "t", "p", ":", "/", "/">>
\* The character set of lstrip("://").
StripChars == {":", "/"}

\* Mutant of parse_proxy: the `"://" not in proxy` test is missing, so a
\* scheme is put in front of every line.
parse_proxy_NoSepCheck(proxy) ==
    LET url ==
            IF StartsWith(proxy, Socks5)
                THEN Socks5hScheme \o LStrip(SplitLast(proxy, Socks5), StripChars)
            ELSE IF StartsWith(proxy, Socks4)
                THEN Socks4Scheme \o LStrip(SplitLast(proxy, Socks4), StripChars)
            ELSE HttpScheme \o proxy
    IN  [http |-> url, https |-> url]

\* parse_proxy: the proxies dictionary handed to requests.
parse_proxy(proxy) ==
    LET url ==
            IF ~Contains(proxy, SchemeSep) THEN
                IF StartsWith(proxy, Socks5)
                    THEN Socks5hScheme \o LStrip(SplitLast(proxy, Socks5), StripChars)
                ELSE IF StartsWith(proxy, Socks4)
                    THEN Socks4Scheme \o LStrip(SplitLast(proxy, Socks4), StripChars)
                ELSE HttpScheme \o proxy
            ELSE proxy
    IN  [http |-> url, https |-> url]

\* ------------------------------------------------------------------ inputs
\* The lines an input file may hold (already stripped, none blank): a bare
\* host:port, the same endpoint written with its scheme, and a socks5 line.
HostPort == <<"h", ":", "8">>
RawLines ==
    { HostPort,
      HttpScheme \o HostPort,
      Socks5 \o <<":", "g">> }

\* What one requests.get call can do: a response with a status code, a
\* requests.RequestException, or any other exception.
Resp(code) == [exc |-> "none", status |-> code]
Raise(e) == [exc |-> e, status |-> 0]
Outcomes ==
    { Resp(200), Resp(503), Raise("RequestException"), Raise("RuntimeError") }

\* ------------------------------------------------------------------ state
VARIABLES
    file_status,   \* the input file: "ok", "missing" or "unreadable"
    file_lines,    \* the set of stripped non-blank lines of the input file
    max_workers,   \* args.max_workers
    retries,       \* args.retries
    pc,            \* where the main thread is
    proxies,       \* the list read_proxies returned
    task,          \* per submitted proxy: its future and its check_proxy call
    work_queue,    \* the executor's FIFO queue of work items not yet taken
    num_threads,   \* worker threads the executor has spawned
    yielded,       \* futures as_completed has handed to the loop
    valid,         \* validate_proxies' valid list
    pbar_n,        \* the progress bar's count (pbar.update)
    interrupted,   \* a KeyboardInterrupt was raised in the main thread
    raised,        \* the exception propagating in the main thread, or "none"
    written,       \* write_proxies wrote the output file
    output,        \* the list written to the output file
    log            \* the warnings and errors main logged

vars ==
    << file_status, file_lines, max_workers, retries, pc, proxies, task,
       work_queue, num_threads, yielded, valid, pbar_n, interrupted, raised,
       written, output, log >>

\* check_proxy's proxy_conf before parse_proxy has set it.
NoConf == [http |-> <<>>, https |-> <<>>]

\* A future that executor.submit has not created yet.
NoTask ==
    [st |-> "none", wpc |-> "-", conf |-> NoConf, attempt |-> 0, hist |-> <<>>,
     sleeps |-> 0, result |-> "pending"]

Total == Len(proxies)
Tasks == 1..Total
Submitted == { i \in Tasks : task[i].st # "none" }
Queued == { i \in Tasks : task[i].st = "queued" }
\* The check_proxy calls that have started and not finished.
Running == { i \in Tasks : task[i].st = "running" }
Done == { i \in Tasks : task[i].st = "done" }

TypeOK ==
    /\ file_status \in {"ok", "missing", "unreadable"}
    /\ max_workers \in Nat
    /\ retries \in Int
    /\ pc \in {"start", "validate", "submit", "collect", "unwind", "write", "exit"}
    /\ DOMAIN task = Tasks
    /\ \A i \in Tasks :
          /\ task[i].st \in {"none", "queued", "running", "done"}
          /\ task[i].wpc \in {"-", "probe", "sleep"}
          /\ task[i].result \in {"pending", "proxy", "None", "raised"}
    /\ \A k \in 1..Len(work_queue) : work_queue[k] \in Tasks
    /\ num_threads \in Nat
    /\ yielded \subseteq Tasks
    /\ pbar_n \in Nat
    /\ interrupted \in BOOLEAN
    /\ raised \in {"none", "KeyboardInterrupt", "RuntimeError"}
    /\ written \in BOOLEAN

Init ==
    /\ file_status \in {"ok", "missing", "unreadable"}
    /\ file_lines \in SUBSET RawLines
    /\ (file_status # "ok" => file_lines = {})
    /\ max_workers \in 0..MaxWorkers
    /\ retries \in (-1)..MaxRetries
    /\ pc = "start"
    /\ proxies = <<>>
    /\ task = <<>>
    /\ work_queue = <<>>
    /\ num_threads = 0
    /\ yielded = {}
    /\ valid = <<>>
    /\ pbar_n = 0
    /\ interrupted = FALSE
    /\ raised = "none"
    /\ written = FALSE
    /\ output = <<>>
    /\ log = {}

\* ------------------------------------------------------------------ main
\* read_proxies: [] for a missing or unreadable file, else the sorted set of
\* the stripped non-blank lines.
read_proxies(status, lines) ==
    IF status # "ok" THEN <<>> ELSE Sorted(lines)

\* Mutant of ReadProxies: the `if not proxies` test is missing, so main goes
\* on to validate_proxies with whatever was read.
ReadProxies_NoEmptyCheck ==
    /\ pc = "start"
    /\ proxies' = read_proxies(file_status, file_lines)
    /\ task' = [i \in 1..Len(proxies') |-> NoTask]
    /\ pc' = "validate"
    /\ UNCHANGED << file_status, file_lines, max_workers, retries, work_queue,
                    num_threads, yielded, valid, pbar_n, interrupted, raised,
                    written, output, log >>

\* main up to the call of validate_proxies: read the input; with no proxies
\* warn and return.
ReadProxies ==
    /\ pc = "start"
    /\ proxies' = read_proxies(file_status, file_lines)
    /\ task' = [i \in 1..Len(proxies') |-> NoTask]
    /\ IF proxies' = <<>>
          THEN /\ pc' = "exit"
               /\ log' = log \cup
                     (IF file_status = "missing" THEN {"File not found"}
                      ELSE IF file_status = "unreadable"
                          THEN {"Failed to read proxies"} ELSE {})
                     \cup {"No proxies found. Exiting."}
          ELSE /\ pc' = "validate"
               /\ log' = log
    /\ UNCHANGED << file_status, file_lines, max_workers, retries, work_queue,
                    num_threads, yielded, valid, pbar_n, interrupted, raised,
                    written, output >>

\* The number of worker threads the pool may hold:
\* ThreadPoolExecutor(max_workers=max_workers), whatever len(proxies) is.
WorkerLimit(mw, total) == mw

\* validate_proxies up to the executor: ThreadPoolExecutor raises ValueError
\* for max_workers <= 0, which main's `except Exception` logs. With an empty
\* list the dict comprehension submits nothing and the loop comes next.
CreateExecutor ==
    /\ pc = "validate"
    /\ valid' = <<>>
    /\ IF WorkerLimit(max_workers, Total) <= 0
          THEN /\ pc' = "exit"
               /\ log' = log \cup {"Unexpected error"}
          ELSE /\ pc' = IF Total = 0 THEN "collect" ELSE "submit"
               /\ log' = log
    /\ UNCHANGED << file_status, file_lines, max_workers, retries, proxies,
                    task, work_queue, num_threads, yielded, pbar_n,
                    interrupted, raised, written, output >>

\* Mutant of ThreadsAfterSubmit: a thread per submitted item, no limit.
ThreadsAfterSubmit_Unbounded(n, mw, total) == n + 1

\* executor.submit spawns a worker thread while fewer than the limit exist.
ThreadsAfterSubmit(n, mw, total) ==
    IF n < WorkerLimit(mw, total) THEN n + 1 ELSE n

\* One executor.submit(check_proxy, proxy, ...) of the dict comprehension:
\* the next proxy of the list, in list order; after the last one the main
\* thread enters the as_completed loop.
Submit ==
    /\ pc = "submit"
    /\ LET i == Cardinality(Submitted) + 1 IN
          /\ i \in Tasks
          /\ task' = [task EXCEPT ![i].st = "queued"]
          /\ work_queue' = Append(work_queue, i)
          /\ num_threads' = ThreadsAfterSubmit(num_threads, max_workers, Total)
          /\ pc' = IF i = Total THEN "collect" ELSE "submit"
    /\ UNCHANGED << file_status, file_lines, max_workers, retries, proxies,
                    yielded, valid, pbar_n, interrupted, raised, written,
                    output, log >>

\* ------------------------------------------------------------------ workers
\* Mutant of InRange: a loop that tests its bound only after the first pass.
InRange_AtLeastOnce(attempt, n) == attempt = 1 \/ (1 <= attempt /\ attempt <= n)

\* Mutant of InRange: range(1, retries), one attempt short.
InRange_Short(attempt, n) == 1 <= attempt /\ attempt < n

\* range(1, retries + 1) still holds the value attempt.
InRange(attempt, n) == 1 <= attempt /\ attempt <= n

\* check_proxy at the top of its for loop with loop value attempt: the next
\* probe, or `return None` once the range is exhausted.
LoopTop(t, attempt, n) ==
    IF InRange(attempt, n)
        THEN [t EXCEPT !.st = "running", !.wpc = "probe", !.attempt = attempt]
        ELSE [t EXCEPT !.st = "done", !.wpc = "-", !.result = "None"]

\* A worker thread takes the oldest work item off the queue and calls
\* check_proxy, which sets proxy_conf = parse_proxy(proxy) and enters its loop. No more items run at once than there
\* are worker threads. The worker does not look at whether the main thread is
\* still collecting.
StartTask ==
    /\ pc \in {"submit", "collect", "unwind"}
    /\ work_queue # <<>>
    /\ Cardinality(Running) < num_threads
    /\ LET i == Head(work_queue)
           t == [task[i] EXCEPT !.conf = parse_proxy(proxies[i])]
       IN  task' = [task EXCEPT ![i] = LoopTop(t, 1, retries)]
    /\ work_queue' = Tail(work_queue)
    /\ UNCHANGED << file_status, file_lines, max_workers, retries, pc,
                    proxies, num_threads, yielded, valid, pbar_n, interrupted,
                    raised, written, output, log >>

\* Mutant of IsOk: any response counts, whatever its status.
IsOk_AnyStatus(o) == o.exc = "none"

\* resp.status_code == 200
IsOk(o) == o.exc = "none" /\ o.status = 200

\* The attempt ends in the sleep below the try: a response that is not 200,
\* or an exception `except requests.RequestException` catches.
IsFailure(o) ==
    \/ o.exc = "none" /\ o.status # 200
    \/ o.exc = "RequestException"

\* Mutant of AfterProbe: the 200 branch logs but lacks its `return proxy`, so
\* the attempt ends in the sleep like a failed one.
AfterProbe_NoReturn(t, o) ==
    LET h == [t EXCEPT !.hist = Append(t.hist, o)] IN
    IF IsOk(o) \/ IsFailure(o) THEN [h EXCEPT !.wpc = "sleep"]
    ELSE [h EXCEPT !.st = "done", !.wpc = "-", !.result = "raised"]

\* check_proxy after requests.get did o: return proxy, go on to the sleep, or
\* let the exception leave check_proxy (the future then holds it).
AfterProbe(t, o) ==
    LET h == [t EXCEPT !.hist = Append(t.hist, o)] IN
    IF IsOk(o) THEN [h EXCEPT !.st = "done", !.wpc = "-", !.result = "proxy"]
    ELSE IF IsFailure(o) THEN [h EXCEPT !.wpc = "sleep"]
    ELSE [h EXCEPT !.st = "done", !.wpc = "-", !.result = "raised"]

\* Mutant of Probe: the worker itself appends a working proxy to the shared
\* valid list.
Probe_WritesValid(i) ==
    /\ i \in Running
    /\ task[i].wpc = "probe"
    /\ \E o \in Outcomes :
          /\ task' = [task EXCEPT ![i] = AfterProbe(task[i], o)]
          /\ valid' = IF IsOk(o) THEN Append(valid, proxies[i]) ELSE valid
    /\ UNCHANGED << file_status, file_lines, max_workers, retries, pc,
                    proxies, work_queue, num_threads, yielded, pbar_n,
                    interrupted, raised, written, output, log >>

\* One requests.get of check_proxy for task i, with any outcome.
Probe(i) ==
    /\ i \in Running
    /\ task[i].wpc = "probe"
    /\ \E o \in Outcomes : task' = [task EXCEPT ![i] = AfterProbe(task[i], o)]
    /\ UNCHANGED << file_status, file_lines, max_workers, retries, pc,
                    proxies, work_queue, num_threads, yielded, valid, pbar_n,
                    interrupted, raised, written, output, log >>

\* The time.sleep that ends a failed attempt, then the loop's next value.
AfterSleep(t, n) ==
    LoopTop([t EXCEPT !.sleeps = t.sleeps + 1], t.attempt + 1, n)

Sleep(i) ==
    /\ i \in Running
    /\ task[i].wpc = "sleep"
    /\ task' = [task EXCEPT ![i] = AfterSleep(task[i], retries)]
    /\ UNCHANGED << file_status, file_lines, max_workers, retries, pc,
                    proxies, work_queue, num_threads, yielded, valid, pbar_n,
                    interrupted, raised, written, output, log >>

\* requests.get opens a Session of its own for each call and closes it: the
\* client contexts created so far are as many as the requests made.
RECURSIVE Requests(_)
Requests(n) == IF n = 0 THEN 0 ELSE Len(task[n].hist) + Requests(n - 1)

SessionsCreated == Requests(Total)

\* ------------------------------------------------------------------ collecting
\* The valid list after the loop body took future i: future.result() returns
\* check_proxy's value, appended if truthy, or re-raises what check_proxy
\* raised, which `except Exception` swallows.
ValidAfter(v, t, proxy) ==
    IF t.result = "proxy" THEN Append(v, proxy) ELSE v

\* Mutant of Catches: the handler is `except requests.RequestException`.
Catches_RequestOnly(e) == e = "RequestException"

\* The exception classes the loop's `except Exception` catches: everything
\* check_proxy can raise (KeyboardInterrupt is a BaseException, not one).
Catches(e) == e \in {"RequestException", "RuntimeError"}

\* The exception future.result() raised out of the loop body, "none" if it
\* returned or the handler caught it.
Escaping(t) ==
    IF t.result = "raised" /\ ~Catches(t.hist[Len(t.hist)].exc)
        THEN t.hist[Len(t.hist)].exc
        ELSE "none"

\* as_completed yields a future that is done and was not yielded before; the
\* loop body runs on it and `finally` advances the progress bar. An exception
\* the handler does not catch leaves the loop and the `with` blocks.
Collect(i) ==
    /\ pc = "collect"
    /\ i \in Done \ yielded
    /\ yielded' = yielded \cup {i}
    /\ valid' = ValidAfter(valid, task[i], proxies[i])
    /\ pbar_n' = pbar_n + 1
    /\ raised' = Escaping(task[i])
    /\ pc' = IF raised' = "none" THEN "collect" ELSE "unwind"
    /\ UNCHANGED << file_status, file_lines, max_workers, retries, proxies,
                    task, work_queue, num_threads, interrupted, written,
                    output, log >>

\* Mutant of AllYielded: the loop gives up with one future outstanding.
AllYielded_Early(y, total) == Cardinality(y) >= total - 1

\* as_completed is exhausted: every future of future_to_proxy was yielded.
AllYielded(y, total) == y = 1..total

\* The executor's __exit__ is shutdown(wait=True): it returns once every
\* worker thread has ended, that is once no work item is queued or running.
PoolDrained == Queued = {} /\ Running = {}

\* The loop ends, the `with` blocks exit and validate_proxies returns valid.
ReturnValid ==
    /\ pc = "collect"
    /\ AllYielded(yielded, Total)
    /\ PoolDrained
    /\ pc' = "write"
    /\ UNCHANGED << file_status, file_lines, max_workers, retries, proxies,
                    task, work_queue, num_threads, yielded, valid, pbar_n,
                    interrupted, raised, written, output, log >>

\* main after validate_proxies returned: write_proxies, then the summary.
WriteProxies ==
    /\ pc = "write"
    /\ written' = TRUE
    /\ output' = valid
    /\ pc' = "exit"
    /\ UNCHANGED << file_status, file_lines, max_workers, retries, proxies,
                    task, work_queue, num_threads, yielded, valid, pbar_n,
                    interrupted, raised, log >>

\* ------------------------------------------------------------------ interrupt
\* Ctrl-C while the main thread is inside the executor's `with` block
\* (submitting, or waiting in as_completed): KeyboardInterrupt is raised
\* there. It is not an Exception, so the loop's handler lets it pass.
Interrupt ==
    /\ pc \in {"submit", "collect"}
    /\ interrupted' = TRUE
    /\ raised' = "KeyboardInterrupt"
    /\ pc' = "unwind"
    /\ UNCHANGED << file_status, file_lines, max_workers, retries, proxies,
                    task, work_queue, num_threads, yielded, valid, pbar_n,
                    written, output, log >>

\* The exception leaves the `with` block once shutdown(wait=True) has joined
\* the workers, leaves validate_proxies, and is caught in main: by
\* `except KeyboardInterrupt`, which logs a warning, or by `except Exception`,
\* which logs the error. Either way main then falls off its end.
Unwind ==
    /\ pc = "unwind"
    /\ PoolDrained
    /\ pc' = "exit"
    /\ log' = log \cup (IF raised = "KeyboardInterrupt"
                           THEN {"Interrupted by user."}
                           ELSE {"Unexpected error"})
    /\ UNCHANGED << file_status, file_lines, max_workers, retries, proxies,
                    task, work_queue, num_threads, yielded, valid, pbar_n,
                    interrupted, raised, written, output >>

Next ==
    \/ ReadProxies
    \/ CreateExecutor
    \/ Submit
    \/ StartTask
    \/ \E i \in Tasks : Probe(i)
    \/ \E i \in Tasks : Sleep(i)
    \/ \E i \in Tasks : Collect(i)
    \/ ReturnValid
    \/ WriteProxies
    \/ Interrupt
    \/ Unwind

Spec == Init /\ [][Next]_vars

\* ------------------------------------------------------------------ a large run
\* A run on a large input under a scheduler that keeps every started probe
\* waiting for its response: the main thread reads the file and submits, the
\* workers pick items up, and no request has returned yet.
LargeTotal == 201
LargeWorkers == 151

Digit(d) == <<"0", "1", "2", "3", "4", "5", "6", "7", "8", "9">>[d + 1]

\* The decimal numeral of n, as an input line (a host written as a number).
RECURSIVE NumLine(_)
NumLine(n) ==
    IF n < 10 THEN <<Digit(n)>> ELSE NumLine(n \div 10) \o <<Digit(n % 10)>>

InitLarge ==
    /\ file_status = "ok"
    /\ file_lines = { NumLine(n) : n \in 1..LargeTotal }
    /\ max_workers = LargeWorkers
    /\ retries = 1
    /\ pc = "start"
    /\ proxies = <<>>
    /\ task = <<>>
    /\ work_queue = <<>>
    /\ num_threads = 0
    /\ yielded = {}
    /\ valid = <<>>
    /\ pbar_n = 0
    /\ interrupted = FALSE
    /\ raised = "none"
    /\ written = FALSE
    /\ output = <<>>
    /\ log = {}

NextLarge ==
    \/ ReadProxies
    \/ CreateExecutor
    \/ Submit
    \/ StartTask

SpecLarge == InitLarge /\ [][NextLarge]_vars

\* ------------------------------------------------------------------ one-line runs
\* Runs on an input file of one line, for every line that is a concatenation
\* of at most MaxTokens of these pieces: the socks prefixes, the separator
\* characters and two host letters.
MaxTokens == 3

Tokens == { Socks5, Socks4, SchemeSep, <<":">>, <<"/">>, <<"h">>, <<"g">> }

RECURSIVE Concat(_)
Concat(ts) == IF ts = <<>> THEN <<>> ELSE Head(ts) \o Concat(Tail(ts))

Lines == UNION { { Concat(ts) : ts \in [1..n -> Tokens] } : n \in 1..MaxTokens }

InitParse ==
    /\ file_status = "ok"
    /\ file_lines \in { {l} : l \in Lines }
    /\ max_workers = 1
    /\ retries = 1
    /\ pc = "start"
    /\ proxies = <<>>
    /\ task = <<>>
    /\ work_queue = <<>>
    /\ num_threads = 0
    /\ yielded = {}
    /\ valid = <<>>
    /\ pbar_n = 0
    /\ interrupted = FALSE
    /\ raised = "none"
    /\ written = FALSE
    /\ output = <<>>
    /\ log = {}

SpecParse == InitParse /\ [][Next]_vars

\* ------------------------------------------------------------------ claims
\* The outcomes of task i's probes so far were all failures (a status other
\* than 200, or a RequestException).
AllFailed(i) == \A k \in 1..Len(task[i].hist) : IsFailure(task[i].hist[k])

\* validate_proxies returned normally (main is about to write, or has).
Returned == pc = "write" \/ written

\* C1: with a worker bound W >= 1, the number of check_proxy calls that have
\* started and not yet finished is at most W in every reachable state.
C1_InFlightBounded ==
    max_workers >= 1 => Cardinality(Running) <= max_workers

\* C1 witness: the bound bites: W checks are in flight while another waits.
C1_Witness ==
    /\ max_workers >= 1
    /\ Cardinality(Running) = max_workers
    /\ Queued # {}

\* C2: when validate_proxies returns normally, every submitted task is
\* terminal, all N futures were collected, the progress count is N, and the
\* valid results and the others add up to N.
C2_ReturnComplete ==
    Returned =>
        /\ Submitted = Tasks
        /\ \A i \in Tasks : task[i].st = "done"
        /\ yielded = Tasks
        /\ pbar_n = Total
        /\ Len(valid)
             + Cardinality({ i \in yielded : task[i].result # "proxy" }) = Total

\* C2 witness: a normal return with three endpoints, some valid, some not.
C2_Witness ==
    /\ pc = "write"
    /\ Total = 3
    /\ Len(valid) = 2

\* C3: with retries >= 1 an endpoint whose probes all fail is probed exactly
\* `retries` times (never more), and check_proxy then returns None.
C3_AllFailExactlyRetries ==
    retries >= 1 =>
        \A i \in Tasks :
            AllFailed(i) =>
                /\ Len(task[i].hist) <= retries
                /\ task[i].result \in {"pending", "None"}
                /\ (task[i].st = "done" =>
                      /\ Len(task[i].hist) = retries
                      /\ task[i].result = "None")

\* C3 witness: two failing attempts of both kinds, then None.
C3_Witness ==
    /\ retries = 2
    /\ \E i \in Tasks :
          /\ task[i].st = "done"
          /\ task[i].result = "None"
          /\ task[i].hist = <<Resp(503), Raise("RequestException")>>

\* C4: the first probe that returns 200 is the endpoint's last: check_proxy
\* has returned the proxy, no probe follows it and the only sleeps are the
\* ones that followed the failed attempts before it; a first-attempt 200
\* gives valid after one attempt and no sleep.
C4_OkReturnsAtOnce ==
    \A i \in Tasks :
        \A k \in 1..Len(task[i].hist) :
            IsOk(task[i].hist[k]) =>
                /\ k = Len(task[i].hist)
                /\ task[i].st = "done"
                /\ task[i].result = "proxy"
                /\ task[i].sleeps = k - 1

\* C4 witness: a 200 on the first attempt while retries are left.
C4_Witness ==
    /\ retries = 2
    /\ \E i \in Tasks :
          /\ task[i].hist = <<Resp(200)>>
          /\ task[i].sleeps = 0
          /\ task[i].result = "proxy"

\* C5: a sleep happens only after a failed attempt that has attempts left:
\* at most retries - 1 sleeps, exactly that many once all attempts failed.
C5_SleepOnlyBetweenAttempts ==
    retries >= 1 =>
        \A i \in Tasks :
            /\ task[i].sleeps <= retries - 1
            /\ (task[i].st = "done" /\ AllFailed(i))
                  => task[i].sleeps = retries - 1

\* C6: after a KeyboardInterrupt that arrived while results were being
\* collected (everything was submitted, some valid result was already
\* appended), the run ends with the valid endpoints collected so far written
\* to the output file.
C6_InterruptPersistsPartial ==
    (interrupted /\ pc = "exit" /\ Submitted = Tasks /\ valid # <<>>)
        => (written /\ output = valid)

\* C7: once the interrupt was received, no queued check is started any more
\* (stated for retries >= 1, where a started check goes on to probe).
C7_NoStartAfterInterrupt ==
    [][(interrupted /\ retries >= 1) =>
          \A i \in Tasks : task[i].st = "queued" => task'[i].st = "queued"]_vars

\* C8: with more than 200 endpoints at most 150 checks are in flight,
\* whatever max_workers was requested.
C8_HardCeiling ==
    Total > 200 => Cardinality(Running) <= 150

Range(q) == { q[k] : k \in 1..Len(q) }

\* C9: an exception that escapes one check_proxy call stays with that task:
\* it never propagates in the main thread or is logged as a failure of the
\* run, and a run that is not interrupted still ends with every task
\* terminal and exactly the endpoints that answered 200 written.
C9_FailureIsolated ==
    (\E i \in Tasks : task[i].result = "raised") =>
        /\ raised \in {"none", "KeyboardInterrupt"}
        /\ "Unexpected error" \notin log
        /\ (pc = "exit" /\ ~interrupted) =>
              /\ written
              /\ \A j \in Tasks :
                    /\ task[j].st = "done"
                    /\ task[j].result = "proxy" <=> proxies[j] \in Range(output)

\* C9 witness: a run ended in which an earlier task raised a non-request
\* exception and a later one was written as valid.
C9_Witness ==
    /\ pc = "exit"
    /\ written
    /\ \E i, j \in Tasks :
          /\ i < j
          /\ task[i].result = "raised"
          /\ task[i].hist[Len(task[i].hist)] = Raise("RuntimeError")
          /\ proxies[j] \in Range(output)

\* C10: no two submitted checks, and no two written entries, are the same
\* endpoint in normalized form.
C10_UniqueByNormalForm ==
    /\ \A i, j \in Submitted :
          parse_proxy(proxies[i]).http = parse_proxy(proxies[j]).http => i = j
    /\ \A k, m \in 1..Len(output) :
          parse_proxy(output[k]).http = parse_proxy(output[m]).http => k = m

\* check_proxy was entered for task i: proxy_conf is set.
Started(i) == task[i].st \in {"running", "done"}

\* The text of url after its first scheme separator.
AfterSep(url) ==
    LET i == CHOOSE k \in Occurrences(url, SchemeSep) :
                 \A j \in Occurrences(url, SchemeSep) : k <= j
    IN  SubSeq(url, i + Len(SchemeSep), Len(url))

\* C11: every endpoint a probe was made through has a scheme separator with
\* a non-empty host part after it.
C11_NoEmptyHostProbed ==
    \A i \in Tasks :
        task[i].hist # <<>> =>
            /\ Contains(task[i].conf.http, SchemeSep)
            /\ AfterSep(task[i].conf.http) # <<>>

Socks5h == Socks5 \o <<"h">>

\* What C12 says a socks5 line becomes: socks5h:// and the text after the
\* leading socks5h or socks5, without its leading `:` and `/` characters.
Socks5Rewrite(line) ==
    LET prefix == IF StartsWith(line, Socks5h) THEN Socks5h ELSE Socks5
    IN  Socks5hScheme
            \o LStrip(SubSeq(line, Len(prefix) + 1, Len(line)), StripChars)

\* C12: for a line without a scheme separator that begins with socks5 or
\* socks5h, proxy_conf holds socks5h://<remainder>, the remainder being the
\* text after that leading prefix with leading `:` and `/` stripped.
C12_Socks5Remainder ==
    \A i \in Tasks :
        (/\ Started(i)
         /\ ~Contains(proxies[i], SchemeSep)
         /\ StartsWith(proxies[i], Socks5))
            => task[i].conf.http = Socks5Rewrite(proxies[i])

\* C13: normalizing the normalized endpoint gives the same endpoint again,
\* and the http and https slots hold the same value.
C13_ParseIdempotent ==
    \A i \in Tasks :
        Started(i) =>
            /\ parse_proxy(task[i].conf.http) = task[i].conf
            /\ task[i].conf.http = task[i].conf.https

\* C13 witness: a check was entered for a socks5 line that parse_proxy
\* rewrote, and for which a second pass changes nothing.
C13_Witness ==
    \E i \in Tasks :
        /\ Started(i)
        /\ StartsWith(proxies[i], Socks5)
        /\ task[i].conf.http # proxies[i]
        /\ parse_proxy(task[i].conf.http).http = task[i].conf.http

\* The input of the fixed run of C14: two lines, two workers, one attempt.
TwoLines == { HostPort, HttpScheme \o HostPort }

\* The fixed run of C14 has written its output: both endpoints answered 200
\* on their only attempt.
C14_FixedRun ==
    /\ file_lines = TwoLines
    /\ max_workers = 2
    /\ retries = 1
    /\ written
    /\ \A i \in Tasks : task[i].hist = <<Resp(200)>>

\* C14: the written list does not depend on the interleaving: every run on
\* the fixed input with the fixed outcomes writes the list that the run of
\* C14_InOrderRun writes.
C14_DeterministicOrder ==
    C14_FixedRun => output = proxies

\* C14: one interleaving of the fixed run writes the endpoints in list order.
C14_InOrderRun ==
    C14_FixedRun /\ output = proxies

\* The input yields no proxies: no file, an unreadable one, or no non-blank
\* line.
NoInput == file_status # "ok" \/ file_lines = {}

\* C15: when the input yields no proxies nothing is submitted, no worker is
\* spawned, no probe is made, the output file is never written, and the run
\* ends with the warning logged.
C15_EmptyInputNoOp ==
    NoInput =>
        /\ proxies = <<>>
        /\ pc \in {"start", "exit"}
        /\ Submitted = {}
        /\ num_threads = 0
        /\ SessionsCreated = 0
        /\ ~written
        /\ (pc = "exit" => "No proxies found. Exiting." \in log)

\* C15 witness: a run on a missing file has ended.
C15_Witness ==
    /\ file_status = "missing"
    /\ pc = "exit"
    /\ log = {"File not found", "No proxies found. Exiting."}

\* C16: with max_workers < 1 (and an input file that can be read) no probe is
\* made, no output is written, and the run ends with the error reported.
C16_BadWorkersReported ==
    (max_workers < 1 /\ file_status = "ok") =>
        /\ SessionsCreated = 0
        /\ ~written
        /\ (pc = "exit" => "Unexpected error" \in log)

\* C17: no worker creates more than one client context: the contexts created
\* are at most as many as the worker threads.
C17_OneContextPerWorker ==
    SessionsCreated <= num_threads

\* C18: with retries >= 1 the list validate_proxies returned holds exactly
\* the input endpoints that had a response of status 200 among their first
\* `retries` attempts, each once.
C18_ValidIffSome200 ==
    (Returned /\ retries >= 1) =>
        /\ \A i \in Tasks :
              proxies[i] \in Range(valid) <=>
                  \E k \in 1..Len(task[i].hist) :
                      k <= retries /\ task[i].hist[k] = Resp(200)
        /\ \A k, m \in 1..Len(valid) : valid[k] = valid[m] => k = m
        /\ Range(valid) \subseteq Range(proxies)

\* C18 witness: a return where one endpoint answered 503 then 200 and is in
\* the list, and another never answered 200 and is not.
C18_Witness ==
    /\ pc = "write"
    /\ \E i, j \in Tasks :
          /\ task[i].hist = <<Resp(503), Resp(200)>>
          /\ proxies[i] \in Range(valid)
          /\ task[j].result = "None"
          /\ proxies[j] \notin Range(valid)

\* A step of a worker thread.
WorkerStep ==
    \/ StartTask
    \/ \E i \in Tasks : Probe(i)
    \/ \E i \in Tasks : Sleep(i)

\* The counts of the run agree with what was collected: nothing is lost.
CountsConsistent ==
    /\ Len(valid) <= pbar_n
    /\ pbar_n <= Cardinality(Submitted)
    /\ Cardinality(Submitted) <= Total
    /\ pbar_n = Cardinality(yielded)
    /\ Len(valid) = Cardinality({ i \in yielded : task[i].result = "proxy" })

C20_NoRetriesNoProbe ==
    retries <= 0 =>
        /\ \A i \in Tasks :
              /\ task[i].hist = <<>>
              /\ task[i].sleeps = 0
              /\ task[i].result \in {"pending", "None"}
        /\ valid = <<>>
        /\ Returned => \A i \in Tasks : task[i].result = "None"

\* C20 witness: validate_proxies returned for two endpoints and retries 0.
C20_Witness ==
    /\ retries = 0
    /\ pc = "write"
    /\ Total = 2
    /\ valid = <<>>

====
